---- MODULE Spec2Model ----
(***************************************************************************)
(* Model of the WhatsApp attendance server: the webhook handler            *)
(* (controllers/webhookController.js), the manual verification endpoint    *)
(* (controllers/attendanceController.js), the Attendance and Student       *)
(* models, and the time-slot helpers of the Student model.                 *)
(*                                                                         *)
(* Abstractions.  A coordinate pair is a pair of integers and              *)
(* geolib.getDistance is the taxicab distance between them, in the same    *)
(* unit as a center's radius.  An instant is [day, min] with min the       *)
(* minute of the day in the server's local time.  An "HH:MM" string is the *)
(* tuple of its five characters, a digit standing for itself and ':' for   *)
(* Colon, so that the JavaScript string comparisons are lexicographic      *)
(* comparisons of tuples.                                                  *)
(***************************************************************************)
EXTENDS FiniteSets, Integers, Sequences, TLC

\* null / undefined where the value is otherwise a string (an id, a name).
Null == "null"

\* null / undefined where the value is otherwise a record or a sequence: an
\* optional value is the sequence of length 0 or 1.
None == << >>
Some(x) == << x >>

\* JavaScript Infinity: larger than every distance of the model.
Infinity == 1000000

(***************************************************************************)
(* Time strings                                                            *)
(***************************************************************************)
\* The character ':' sorts after every digit.
Colon == 10

\* Date.prototype.toTimeString().slice(0, 5): the local time as "HH:MM".
toTimeString(min) ==
    << (min \div 60) \div 10, (min \div 60) % 10, Colon, (min % 60) \div 10, (min % 60) % 10 >>

\* a < b for two strings of equal length (JavaScript compares code units).
RECURSIVE StrLess(_, _)
StrLess(a, b) ==
    IF a = << >> \/ b = << >> THEN FALSE
    ELSE IF Head(a) # Head(b) THEN Head(a) < Head(b)
    ELSE StrLess(Tail(a), Tail(b))

StrLeq(a, b) == a = b \/ StrLess(a, b)

\* studentSchema.methods._timeToMinutes: split(':').map(Number), hours * 60 + minutes.
timeToMinutes(timeString) ==
    (timeString[1] * 10 + timeString[2]) * 60 + (timeString[4] * 10 + timeString[5])

(***************************************************************************)
(* Student.getCurrentTimeSlot and Student.isAttendanceLate                 *)
(* The center argument is None or Some(center); center.timeSlots is None   *)
(* (no such property) or Some(entries), the entries of the object in       *)
(* declaration order, each [name, start, end] with start/end an "HH:MM"    *)
(* tuple or the empty string << >> (falsy in JavaScript).                  *)
(***************************************************************************)
NoSlot == [slot |-> Null, isWithinHours |-> FALSE, startTime |-> << >>, endTime |-> << >>]

\* times && times.start && times.end
SlotUsable(times) == times.start # << >> /\ times.end # << >>

\* Mutation of SlotContains: the end bound is exclusive.
SlotContainsEndExclusive(times, timeString) ==
    /\ SlotUsable(times)
    /\ StrLeq(times.start, timeString)
    /\ StrLess(timeString, times.end)

\* timeString >= times.start && timeString <= times.end
SlotContains(times, timeString) ==
    /\ SlotUsable(times)
    /\ StrLeq(times.start, timeString)
    /\ StrLeq(timeString, times.end)

\* Mutation of FirstSlot: the last containing entry.
RECURSIVE LastSlot(_, _)
LastSlot(timeSlots, timeString) ==
    IF timeSlots = << >> THEN NoSlot
    ELSE LET rest == LastSlot(Tail(timeSlots), timeString)
         IN  IF rest.isWithinHours THEN rest
             ELSE IF SlotContains(Head(timeSlots), timeString)
                  THEN [slot |-> Head(timeSlots).name, isWithinHours |-> TRUE,
                        startTime |-> Head(timeSlots).start, endTime |-> Head(timeSlots).end]
                  ELSE NoSlot

\* The for..of loop over Object.entries(timeSlots): the first containing entry.
RECURSIVE FirstSlot(_, _)
FirstSlot(timeSlots, timeString) ==
    IF timeSlots = << >> THEN NoSlot
    ELSE IF SlotContains(Head(timeSlots), timeString)
         THEN [slot |-> Head(timeSlots).name, isWithinHours |-> TRUE,
               startTime |-> Head(timeSlots).start, endTime |-> Head(timeSlots).end]
         ELSE FirstSlot(Tail(timeSlots), timeString)

\* !center || !center.timeSlots
NoTimeSlots(center) == center = None \/ center[1].timeSlots = None

getCurrentTimeSlot(center, checkTime) ==
    IF NoTimeSlots(center) THEN NoSlot
    ELSE FirstSlot(center[1].timeSlots[1], toTimeString(checkTime))

\* Mutation of LateAfterThreshold: the grace boundary itself counts as late.
LateAtThreshold(attendanceMinutes, slotStartMinutes, lateThreshold) ==
    attendanceMinutes >= slotStartMinutes + lateThreshold

\* const isLate = attendanceMinutes > thresholdMinutes
LateAfterThreshold(attendanceMinutes, slotStartMinutes, lateThreshold) ==
    attendanceMinutes > slotStartMinutes + lateThreshold

isAttendanceLate(center, attendanceTime, lateThreshold) ==
    IF NoTimeSlots(center) THEN FALSE
    ELSE LET timeSlotInfo == getCurrentTimeSlot(center, attendanceTime)
         IN  IF ~timeSlotInfo.isWithinHours THEN TRUE
             ELSE LateAfterThreshold(timeToMinutes(toTimeString(attendanceTime)),
                                     timeToMinutes(timeSlotInfo.startTime),
                                     lateThreshold)

\* attendanceSchema.methods.isLate(expectedStartTime = '09:00')
DefaultExpectedStart == << 0, 9, Colon, 0, 0 >>

isLate(date) == StrLess(DefaultExpectedStart, toTimeString(date.min))

(***************************************************************************)
(* Student.isWithinAnyCenterRadius                                         *)
(* A center is [id, name, coordinates, radius, isActive, timeSlots]; the   *)
(* directory `centers` is the sequence settings.centers.  The coordinates  *)
(* of the model are integers, on which parseFloat(x.toFixed(6)) changes    *)
(* nothing.                                                                *)
(***************************************************************************)
Abs(x) == IF x < 0 THEN -x ELSE x

\* geolib.getDistance(a, b)
getDistance(a, b) ==
    Abs(a.latitude - b.latitude) + Abs(a.longitude - b.longitude)

\* parseFloat(parseFloat(x).toFixed(6)) of a coordinate that is no number.
NaN == 2000000

\* Mutation of TryDistance: the catch gives the distance 0.
TryDistanceZero(user, coordinates) ==
    IF coordinates.latitude = NaN \/ coordinates.longitude = NaN
    THEN 0
    ELSE getDistance(user, coordinates)

\* try { distance = geolib.getDistance(...) } catch (error) { distance = Infinity }:
\* geolib has no distance for a coordinate that is no number.  (Were it to
\* return NaN instead of throwing, distance <= radius would be false as well.)
TryDistance(user, coordinates) ==
    IF coordinates.latitude = NaN \/ coordinates.longitude = NaN
    THEN Infinity
    ELSE getDistance(user, coordinates)

NotWithin == [isWithin |-> FALSE, distance |-> Infinity, center |-> Null]

\* Mutation of InsideRadius: a point exactly on the radius is outside.
StrictlyInsideRadius(distance, radius) == distance < radius

\* distance <= center.radius
InsideRadius(distance, radius) == distance <= radius

\* centers.find(center => center._id.toString() === this.assignedCenter ||
\*                        center.name === this.assignedCenter)
RECURSIVE FindAssigned(_, _)
FindAssigned(centers, assigned) ==
    IF centers = << >> THEN None
    ELSE IF Head(centers).id = assigned \/ Head(centers).name = assigned
         THEN Some(Head(centers))
         ELSE FindAssigned(Tail(centers), assigned)

\* Mutation of Skipped: no center is skipped.
SkippedNever(center) == FALSE

\* if (!center.isActive) continue
Skipped(center) == ~center.isActive

\* Mutation of Closer: a center at the same distance replaces the current choice.
NotFarther(distance, minDistance) == distance <= minDistance

\* distance < minDistance
Closer(distance, minDistance) == distance < minDistance

\* The loop over all centers: inactive ones are skipped, and a center replaces
\* the current choice when it is inside its radius and strictly closer.
RECURSIVE ClosestValid(_, _, _, _)
ClosestValid(centers, user, closestValidCenter, minDistance) ==
    IF centers = << >>
    THEN [isWithin |-> closestValidCenter # Null,
          distance |-> IF closestValidCenter # Null THEN minDistance ELSE Infinity,
          center |-> closestValidCenter]
    ELSE LET center == Head(centers)
             distance == TryDistance(user, center.coordinates)
         IN  IF Skipped(center)
             THEN ClosestValid(Tail(centers), user, closestValidCenter, minDistance)
             ELSE IF InsideRadius(distance, center.radius) /\ Closer(distance, minDistance)
                  THEN ClosestValid(Tail(centers), user, center.id, distance)
                  ELSE ClosestValid(Tail(centers), user, closestValidCenter, minDistance)

\* The result names the center by its id (Null for no center).
isWithinAnyCenterRadius(self, userLat, userLng, centers) ==
    LET user == [latitude |-> userLat, longitude |-> userLng]
        assignedCenter == IF self.assignedCenter # Null
                          THEN FindAssigned(centers, self.assignedCenter)
                          ELSE None
    IN  IF assignedCenter # None /\ assignedCenter[1].isActive
        THEN LET distance == TryDistance(user, assignedCenter[1].coordinates)
             IN  [isWithin |-> InsideRadius(distance, assignedCenter[1].radius),
                  distance |-> distance,
                  center |-> assignedCenter[1].id]
        ELSE ClosestValid(centers, user, Null, Infinity)

(***************************************************************************)
(* Bounds of the model                                                     *)
(***************************************************************************)
\* The clock takes the instants 0..MaxTick of the timeline.
MaxTick == 2
\* Webhook deliveries of photos (redeliveries included).
MaxDeliveries == 2
\* Manual verifications.
MaxAdminOps == 1

\* Concurrent webhook requests being handled.
Procs == {1, 2}

\* The timeline: 08:30 and 09:05 of day 0, 08:30 and 09:05 of day 1, ...
Instant(i) == [day |-> i \div 2, min |-> IF i % 2 = 0 THEN 510 ELSE 545]

Instants == { Instant(i) : i \in 0..MaxTick }

Before(a, b) == a.day < b.day \/ (a.day = b.day /\ a.min < b.min)

(***************************************************************************)
(* Students and centers                                                    *)
(***************************************************************************)
\* Phone numbers are sequences of digits.  A subscriber number has ten digits;
\* WhatsApp sends the sender's number with the country code in front.
Subscriber(last) == << 9, 8, 7, 6, 5, 4, 3, 2, 1, last >>
WithCountryCode(number) == << 9, 1 >> \o number

p1 == Subscriber(1)
p2 == Subscriber(2)
p0 == Subscriber(0)

\* The students collection (student CRUD is not part of the model).
Students ==
    << [id |-> "s1", phone |-> p1, isActive |-> TRUE,  assignedCenter |-> Null],
       [id |-> "s2", phone |-> p2, isActive |-> FALSE, assignedCenter |-> "c2"] >>

\* Sender numbers: the registered ones and an unregistered one.
Phones == {p1, p2, p0}

\* settings.attendanceSettings.lateThreshold
lateThreshold == 15

HHMM(h, m) == << h \div 10, h % 10, Colon, m \div 10, m % 10 >>

\* The time slots settingsController.addCenter gives a center by default.
DefaultTimeSlots ==
    << [name |-> "morning",   start |-> HHMM(9, 0),  end |-> HHMM(13, 0)],
       [name |-> "afternoon", start |-> HHMM(14, 0), end |-> HHMM(18, 0)],
       [name |-> "evening",   start |-> HHMM(19, 0), end |-> HHMM(22, 0)] >>

Center(id, lat, radius, active) ==
    [id |-> id, name |-> id, coordinates |-> [latitude |-> lat, longitude |-> 0],
     radius |-> radius, isActive |-> active, timeSlots |-> Some(DefaultTimeSlots)]

\* settings.centers when the server starts.
InitCenters == << Center("c1", 2, 2, TRUE), Center("c2", 9, 2, TRUE) >>

\* The position a message can carry: on the radius of c1.
Points == { [latitude |-> 4, longitude |-> 0] }

(***************************************************************************)
(* The Attendance model                                                    *)
(***************************************************************************)
\* whatsappMessage.messageType: enum ['text', 'image', 'document']
MessageTypeEnum == {"text", "image", "document"}

\* The schema defaults of the verification sub-document.
DefaultVerification ==
    [isVerified |-> FALSE, verifiedBy |-> "system", verifiedAt |-> None,
     verificationMethod |-> "auto_geo"]

\* Mutation of ValidAttendance: the enum holds 'location' too.
ValidAttendanceAnyType(doc) ==
    doc.whatsappMessage.messageType \in MessageTypeEnum \cup {"location"}

\* Mongoose validation before save: the enum of whatsappMessage.messageType.
ValidAttendance(doc) == doc.whatsappMessage.messageType \in MessageTypeEnum

\* attendanceSchema.pre('save')
PreSave(doc, now) ==
    IF doc.location.isWithinRadius /\ ~doc.verification.isVerified
    THEN [doc EXCEPT !.verification.isVerified = TRUE,
                     !.verification.verifiedAt = Some(now),
                     !.verification.verificationMethod = "auto_geo",
                     !.status = IF isLate(doc.date) THEN "late" ELSE "present"]
    ELSE doc

\* The unique index { student: 1, date: 1 }: the date is the full timestamp.
DuplicateKey(store, doc) ==
    \E i \in 1..Len(store) : store[i].student = doc.student /\ store[i].date = doc.date

\* Attendance.findOne({ student, date: { $gte: today, $lt: tomorrow } }): the index
\* of the first record of the student dated on the given day, 0 for none.
AttendanceFindOne(store, student, day) ==
    LET hits == { i \in 1..Len(store) : store[i].student = student /\ store[i].date.day = day }
    IN  IF hits = {} THEN 0 ELSE CHOOSE i \in hits : \A j \in hits : i <= j

\* from.slice(-10)
last10Digits(from) ==
    IF Len(from) > 10 THEN SubSeq(from, Len(from) - 9, Len(from)) ELSE from

\* { phone: { $regex: `${last10Digits}$` } } for numbers made of digits
EndsWith(phone, digits) ==
    /\ Len(digits) <= Len(phone)
    /\ SubSeq(phone, Len(phone) - Len(digits) + 1, Len(phone)) = digits

\* Student.findOne({ $or: [{ phone: from }, { phone: { $regex: ... } }] }): the
\* first student whose phone is the sender's number or ends with its last ten
\* digits.
StudentFindOne(from) ==
    LET hits == { i \in 1..Len(Students) :
                    \/ Students[i].phone = from
                    \/ EndsWith(Students[i].phone, last10Digits(from)) }
    IN  IF hits = {} THEN None ELSE Some(Students[CHOOSE i \in hits : \A j \in hits : i <= j])

\* findClosestValidCenter(location, student).  settings is what
\* Settings.getSettings() gave: Some(centers), or None when the read threw, and
\* then the catch answers "not within".
findClosestValidCenter(location, student, settings) ==
    IF settings = None
    THEN NotWithin
    ELSE isWithinAnyCenterRadius(student, location.latitude, location.longitude,
                                 settings[1])

(***************************************************************************)
(* State                                                                   *)
(***************************************************************************)
VARIABLES
    now,         \* the server clock, an instant
    centers,     \* settings.centers
    attendance,  \* the attendances collection, in insertion order
    msgs,        \* the distinct messages delivered so far; a message's id is its index
    deliveries,  \* webhook deliveries of photos so far
    adminOps,    \* manual verifications made so far
    h,           \* per request being handled: position and local variables
    resolveCall, \* a call of isWithinAnyCenterRadius: arguments and result
    timeCall,    \* a call of getCurrentTimeSlot / isAttendanceLate: arguments and results
    orderCall,   \* two messages handled one after the other, in both orders
    webhookCall, \* one webhook request served from start to response
    exifCall,    \* a call of extractImageMetadata: what exifr gave, and the result
    snapshotCall, \* one photo handled while the directory changes between its reads
    verifyCall,  \* one verifyAttendance request: arguments, collection after, response
    batchCall    \* one webhook request with two messages, and its redelivery

vars ==
    << now, centers, attendance, msgs, deliveries, adminOps, h,
       resolveCall, timeCall, orderCall, webhookCall, exifCall, snapshotCall,
       verifyCall, batchCall >>

\* The calls of single functions, which the server's requests leave alone.
callVars ==
    << resolveCall, timeCall, orderCall, webhookCall, exifCall, snapshotCall, verifyCall,
       batchCall >>

sysVars == << now, centers, attendance, msgs, deliveries, adminOps, h >>

NoDoc ==
    [student |-> Null, date |-> [day |-> 0, min |-> 0], status |-> "pending_verification",
     whatsappMessage |-> [messageId |-> 0, messageType |-> "text"],
     location |-> [coordinates |-> [latitude |-> 0, longitude |-> 0],
                   isWithinRadius |-> FALSE, distanceFromCenter |-> 0],
     verification |-> DefaultVerification,
     images |-> << >>]

\* A request slot that handles nothing.
Idle ==
    [pc |-> "idle", msg |-> 0, found |-> 0, orig |-> NoDoc, doc |-> NoDoc]

NoResolveCall == [called |-> FALSE]
NoTimeCall == [called |-> FALSE]
NoOrderCall == [called |-> FALSE]
NoWebhookCall == [called |-> FALSE]
NoExifCall == [called |-> FALSE]
NoSnapshotCall == [called |-> FALSE]
NoVerifyCall == [called |-> FALSE]
NoBatchCall == [phase |-> "none"]

\* The server after start: no record, no request being handled.
InitSystem ==
    /\ now = Instant(0)
    /\ centers = InitCenters
    /\ attendance = << >>
    /\ msgs = << >>
    /\ deliveries = 0
    /\ adminOps = 0
    /\ h = [p \in Procs |-> Idle]

Init ==
    /\ InitSystem
    /\ resolveCall = NoResolveCall
    /\ timeCall = NoTimeCall
    /\ orderCall = NoOrderCall
    /\ webhookCall = NoWebhookCall
    /\ exifCall = NoExifCall
    /\ snapshotCall = NoSnapshotCall
    /\ verifyCall = NoVerifyCall
    /\ batchCall = NoBatchCall

(***************************************************************************)
(* handleIncomingMessage                                                   *)
(***************************************************************************)
\* A shared location has coordinates and a text has none; WhatsApp strips the
\* EXIF data of a photo sent as an image, a photo sent as a document keeps it.
WellFormed(m) ==
    /\ m.type \in {"location", "document"} => m.gps # None
    /\ m.type \in {"text", "image"} => m.gps = None

\* The messages a sender can produce at the current instant: the timestamp is the
\* time of sending, the gps is the shared location or the photo's EXIF position.
NewMessages ==
    { m \in [from : Phones, timestamp : {now},
             type : {"location", "image", "document", "text"},
             gps : {None} \cup { Some(pt) : pt \in Points }] : WellFormed(m) }

\* existingAttendance && existingAttendance.status !== 'pending_verification'
AlreadyMarked(store, existing) ==
    existing # 0 /\ store[existing].status # "pending_verification"

\* The sender is an active student.
Registered(from) ==
    StudentFindOne(from) # None /\ StudentFindOne(from)[1].isActive

\* Lines 170-210: the early returns of the handler, for a sender who is not a
\* student or not an active one, and for a day already marked.
Refused(from) ==
    LET student == StudentFindOne(from)
    IN  \/ student = None
        \/ ~student[1].isActive
        \/ AlreadyMarked(attendance, AttendanceFindOne(attendance, student[1].id, now.day))

\* Lines 226-240 for a photo (an image, or a document holding one): the request
\* goes on to processImageAttendance.
Dispatch(p, k, m) ==
    IF Refused(m.from)
    THEN h' = [h EXCEPT ![p] = Idle]
    ELSE h' = [h EXCEPT ![p] = [Idle EXCEPT !.pc = "img_find", !.msg = k]]

\* The slot a new request takes: the first free one.
FreeSlot(p) ==
    /\ h[p].pc = "idle"
    /\ \A q \in Procs : q < p => h[q].pc # "idle"

\* A webhook delivers a new photo.
Receive(p) ==
    /\ FreeSlot(p)
    /\ deliveries < MaxDeliveries
    /\ \E m \in NewMessages :
         /\ m.type \in {"image", "document"}
         /\ Registered(m.from)
         /\ msgs' = Append(msgs, m)
         /\ Dispatch(p, Len(msgs) + 1, m)
    /\ deliveries' = deliveries + 1
    /\ UNCHANGED << now, centers, attendance, adminOps, callVars >>

\* A webhook delivers again a photo it delivered before.
Redeliver(p) ==
    /\ FreeSlot(p)
    /\ deliveries < MaxDeliveries
    /\ \E k \in 1..Len(msgs) : Dispatch(p, k, msgs[k])
    /\ deliveries' = deliveries + 1
    /\ UNCHANGED << now, centers, attendance, msgs, adminOps, callVars >>

StudentOf(p) == StudentFindOne(msgs[h[p].msg].from)[1]

\* A webhook delivers a text, or a message of a number that is no active
\* student's: the handler answers with a text (lines 179-191, 236-240).
ReceiveOther ==
    /\ { m \in NewMessages : m.type = "text" \/ ~Registered(m.from) } # {}
    /\ UNCHANGED vars

(***************************************************************************)
(* processLocationAttendance                                               *)
(***************************************************************************)
LocationDoc(m, student, res, at) ==
    [student |-> student.id, date |-> m.timestamp, status |-> "pending_verification",
     whatsappMessage |-> [messageId |-> 0, messageType |-> "location"],
     location |-> [coordinates |-> m.gps[1], isWithinRadius |-> res.isWithin,
                   distanceFromCenter |-> res.distance],
     verification |-> [DefaultVerification EXCEPT
                         !.isVerified = res.isWithin,
                         !.verifiedAt = IF res.isWithin THEN Some(at) ELSE None],
     images |-> << >>]

\* A webhook delivers a shared location (lines 226-227, 250-322): past the early
\* returns the handler resolves the center, builds a record and saves it.  Nothing
\* after the early returns reads the collection before the save, so the request
\* is one step; a save rejected by validation or by the unique index throws, and
\* the catch of handleIncomingMessage answers with an error message.
processLocationAttendance ==
    /\ \E m \in NewMessages :
         /\ m.type = "location"
         /\ Registered(m.from)
         /\ IF Refused(m.from)
            THEN attendance' = attendance
            ELSE LET student == StudentFindOne(m.from)[1]
                     res == findClosestValidCenter(m.gps[1], student, Some(centers))
                     doc == PreSave(LocationDoc(m, student, res, now), now)
                 IN  attendance' = IF ValidAttendance(doc) /\ ~DuplicateKey(attendance, doc)
                                   THEN Append(attendance, doc)
                                   ELSE attendance
    /\ UNCHANGED << now, centers, msgs, deliveries, adminOps, h, callVars >>

(***************************************************************************)
(* processImageAttendance                                                  *)
(***************************************************************************)
\* An entry of attendance.images; msg is the message the photo came with.
ImageOf(k) == [msg |-> k]

HasGPS(m) == m.gps # None

ResolvedLocation(m, res) ==
    [coordinates |-> m.gps[1], isWithinRadius |-> res.isWithin,
     distanceFromCenter |-> res.distance]

\* Lines 534-542: the location of a record made from a photo without GPS.
PendingLocation ==
    [coordinates |-> [latitude |-> 0, longitude |-> 0],
     isWithinRadius |-> FALSE, distanceFromCenter |-> 999999]

\* Lines 469-471 and 477-479.
MarkVerified(doc, at) ==
    [doc EXCEPT !.status = IF isLate(doc.date) THEN "late" ELSE "present",
                !.verification.isVerified = TRUE,
                !.verification.verifiedAt = Some(at)]

\* Mutation of MarkIfWithin: the record is marked wherever its location is.
MarkRegardless(doc, at) == MarkVerified(doc, at)

\* Lines 476-480: a record whose location is inside a radius is marked.
MarkIfWithin(doc, at) ==
    IF doc.location.isWithinRadius THEN MarkVerified(doc, at) ELSE doc

\* Lines 492-560: the record made from a photo when the day has none.
ImageDoc(m, k, student, initialStatus, location) ==
    [student |-> student.id, date |-> m.timestamp, status |-> initialStatus,
     whatsappMessage |-> [messageId |-> k, messageType |-> m.type],
     location |-> location,
     verification |-> DefaultVerification,
     images |-> << ImageOf(k) >>]

\* Lines 415-480 for a record found: the image is pushed, a photo with GPS gives
\* the record its location when it has none inside a radius, and a record whose
\* location is inside a radius is marked.
UpdatedDoc(orig, m, student, dir, at) ==
    IF HasGPS(m) /\ ~orig.location.isWithinRadius
    THEN LET res == findClosestValidCenter(m.gps[1], student, dir)
             located == [orig EXCEPT !.location = ResolvedLocation(m, res)]
             marked == IF res.isWithin THEN MarkVerified(located, at) ELSE located
         IN  MarkIfWithin(marked, at)
    ELSE MarkIfWithin(orig, at)

\* Lines 485-560 for no record found: the initial status and the location each
\* come from a resolution of the photo's GPS position, each with its own read
\* of the settings.
CreatedFromReads(m, k, student, statusRead, locationRead) ==
    IF HasGPS(m)
    THEN LET first == findClosestValidCenter(m.gps[1], student, statusRead)
             second == findClosestValidCenter(m.gps[1], student, locationRead)
         IN  ImageDoc(m, k, student,
                      IF first.isWithin THEN "present" ELSE "pending_verification",
                      ResolvedLocation(m, second))
    ELSE ImageDoc(m, k, student, "pending_verification", PendingLocation)

\* The same when both reads give the same settings.
CreatedDoc(m, k, student, dir) == CreatedFromReads(m, k, student, dir, dir)

\* Lines 415-480 and 485-560 up to the save: look up today's record of the
\* student and prepare the document to save.  No action of the specification
\* changes the centers, so the resolutions read them here.
ImgFind(p) ==
    /\ h[p].pc = "img_find"
    /\ LET m == msgs[h[p].msg]
           found == AttendanceFindOne(attendance, StudentOf(p).id, now.day)
       IN  IF found # 0
           THEN h' = [h EXCEPT ![p].pc = "img_save", ![p].found = found,
                               ![p].orig = attendance[found],
                               ![p].doc = UpdatedDoc(attendance[found], m, StudentOf(p),
                                                     Some(centers), now)]
           ELSE h' = [h EXCEPT ![p].pc = "img_save",
                               ![p].doc = CreatedDoc(m, h[p].msg, StudentOf(p), Some(centers))]
    /\ UNCHANGED << now, centers, attendance, msgs, deliveries, adminOps, callVars >>

\* document.save() of a record read before: the paths the handler changed are
\* written ($set), and the pushed image is appended ($push) to the stored array.
UpdateSaved(stored, orig, doc, image) ==
    [stored EXCEPT
        !.images = Append(@, image),
        !.location = IF doc.location # orig.location THEN doc.location ELSE @,
        !.status = IF doc.status # orig.status THEN doc.status ELSE @,
        !.verification.isVerified =
            IF doc.verification.isVerified # orig.verification.isVerified
            THEN doc.verification.isVerified ELSE @,
        !.verification.verifiedAt =
            IF doc.verification.verifiedAt # orig.verification.verifiedAt
            THEN doc.verification.verifiedAt ELSE @,
        !.verification.verificationMethod =
            IF doc.verification.verificationMethod # orig.verification.verificationMethod
            THEN doc.verification.verificationMethod ELSE @]

\* Lines 482 and 562: attendance.save(), and the reply of lines 565-616.  A
\* rejected insert throws, and the catch of handleIncomingMessage answers with an
\* error message.
ImgSave(p) ==
    /\ h[p].pc = "img_save"
    /\ LET doc == PreSave(h[p].doc, now)
       IN  IF h[p].found # 0
           THEN attendance' = [attendance EXCEPT ![h[p].found] =
                                  UpdateSaved(@, h[p].orig, doc, ImageOf(h[p].msg))]
           ELSE IF ValidAttendance(doc) /\ ~DuplicateKey(attendance, doc)
                THEN attendance' = Append(attendance, doc)
                ELSE attendance' = attendance
    /\ h' = [h EXCEPT ![p] = Idle]
    /\ UNCHANGED << now, centers, msgs, deliveries, adminOps, callVars >>

(***************************************************************************)
(* Administrative requests and the clock                                   *)
(***************************************************************************)
\* The update of findByIdAndUpdate in verifyAttendance (lines 205-216).
ManualUpdate(doc, status, at) ==
    [doc EXCEPT !.status = status,
                !.verification = [isVerified |-> TRUE, verifiedBy |-> "admin",
                                  verifiedAt |-> Some(at),
                                  verificationMethod |-> "manual_admin"]]

\* Mutation of AllowedStatus: every status is taken.
AnyStatus(status) == TRUE

\* ['present', 'late', 'absent'].includes(status)
AllowedStatus(status) == status \in {"present", "late", "absent"}

\* attendanceController.verifyAttendance on a collection: 400 for a status outside
\* the list, 404 for an id that no record has, else findByIdAndUpdate and 200.
\* A record's id is its index.
VerifyRequest(store, id, status, at) ==
    IF ~AllowedStatus(status)
    THEN [store |-> store, code |-> 400]
    ELSE IF id \notin 1..Len(store)
    THEN [store |-> store, code |-> 404]
    ELSE [store |-> [store EXCEPT ![id] = ManualUpdate(@, status, at)], code |-> 200]

\* A verifyAttendance request to the server; adminOps counts those that changed
\* a record.
verifyAttendance(id, status) ==
    /\ adminOps < MaxAdminOps
    /\ LET done == VerifyRequest(attendance, id, status, now)
       IN  /\ attendance' = done.store
           /\ adminOps' = IF done.code = 200 THEN adminOps + 1 ELSE adminOps
    /\ UNCHANGED << now, centers, msgs, deliveries, h, callVars >>

\* Time passes.
Tick ==
    /\ \E t \in Instants :
         /\ Before(now, t)
         /\ \A u \in Instants : Before(now, u) => ~Before(u, t)
         /\ now' = t
    /\ UNCHANGED << centers, attendance, msgs, deliveries, adminOps, h, callVars >>

Next ==
    \/ \E p \in Procs : Receive(p)
    \/ \E p \in Procs : Redeliver(p)
    \/ ReceiveOther
    \/ processLocationAttendance
    \/ \E p \in Procs : ImgFind(p)
    \/ \E p \in Procs : ImgSave(p)
    \/ \E id \in 1..(Len(attendance) + 1),
          status \in {"present", "late", "absent", "pending_verification"} :
          verifyAttendance(id, status)
    \/ Tick

Spec == Init /\ [][Next]_vars

(***************************************************************************)
(* Student.isWithinAnyCenterRadius called on its own                       *)
(***************************************************************************)
\* Latitudes of the points the resolver is called with are 0..MaxCoordinate.
MaxCoordinate == 8

CallPoints == { [latitude |-> x, longitude |-> 0] : x \in 0..MaxCoordinate }

\* An active c2 that is no valid center: around x with a negative radius, or
\* with radius 2 and a latitude that is no number.
InvalidCenters(x) ==
    { Center("c2", x, -2, TRUE),
      [Center("c2", x, 2, TRUE) EXCEPT !.coordinates.latitude = NaN] }

\* Directories: c1 around 2 and c2 around 4 or 5, with radius 2, each active or
\* not, listed in either order; the same with an invalid c2; the directories
\* without c2; the empty directory.
Directories ==
    { << Center("c1", 2, 2, a1), Center("c2", x, 2, a2) >> :
        a1 \in BOOLEAN, a2 \in BOOLEAN, x \in {4, 5} }
        \cup { << Center("c2", x, 2, a2), Center("c1", 2, 2, a1) >> :
                 a1 \in BOOLEAN, a2 \in BOOLEAN, x \in {4, 5} }
        \cup { << Center("c1", 2, 2, a1), c2 >> :
                 a1 \in BOOLEAN, c2 \in InvalidCenters(4) \cup InvalidCenters(5) }
        \cup { << c2, Center("c1", 2, 2, a1) >> :
                 a1 \in BOOLEAN, c2 \in InvalidCenters(4) \cup InvalidCenters(5) }
        \cup { << Center("c1", 2, 2, a1) >> : a1 \in BOOLEAN }
        \cup { << >> }

\* The student the method is called on: unassigned, or assigned to c1 or to c2.
Callers ==
    { [id |-> "s1", phone |-> p1, isActive |-> TRUE, assignedCenter |-> a] :
        a \in {Null, "c1", "c2"} }

InitResolve ==
    /\ InitSystem
    /\ timeCall = NoTimeCall
    /\ orderCall = NoOrderCall
    /\ webhookCall = NoWebhookCall
    /\ exifCall = NoExifCall
    /\ snapshotCall = NoSnapshotCall
    /\ verifyCall = NoVerifyCall
    /\ batchCall = NoBatchCall
    /\ resolveCall \in [called : {FALSE}, self : Callers, point : CallPoints,
                        centers : Directories, result : {NotWithin}]

Resolve ==
    /\ ~resolveCall.called
    /\ resolveCall' =
         [resolveCall EXCEPT
            !.called = TRUE,
            !.result = isWithinAnyCenterRadius(resolveCall.self, resolveCall.point.latitude,
                                               resolveCall.point.longitude,
                                               resolveCall.centers)]
    /\ UNCHANGED << sysVars, timeCall, orderCall, webhookCall, exifCall, snapshotCall, verifyCall,
                    batchCall >>

NextResolve == Resolve

SpecResolve == InitResolve /\ [][NextResolve]_vars

(***************************************************************************)
(* Student.getCurrentTimeSlot and Student.isAttendanceLate called on their *)
(* own                                                                     *)
(***************************************************************************)
\* Two windows that overlap from 12:00 to 13:00.
OverlappingTimeSlots ==
    << [name |-> "morning", start |-> HHMM(9, 0),  end |-> HHMM(13, 0)],
       [name |-> "midday",  start |-> HHMM(12, 0), end |-> HHMM(15, 0)] >>

\* The same two windows with the later one declared first.
ReversedTimeSlots ==
    << OverlappingTimeSlots[2], OverlappingTimeSlots[1] >>

\* A window without a start, before a complete one.
PartialTimeSlots ==
    << [name |-> "morning",   start |-> << >>,       end |-> HHMM(13, 0)],
       [name |-> "afternoon", start |-> HHMM(14, 0), end |-> HHMM(18, 0)] >>

\* The center argument: no center, a center without timeSlots, and centers with
\* the default, the overlapping (in both orders) and the partial windows.
TimeCenters ==
    { None, Some([Center("c1", 2, 2, TRUE) EXCEPT !.timeSlots = None]) }
        \cup { Some([Center("c1", 2, 2, TRUE) EXCEPT !.timeSlots = Some(ts)]) :
                 ts \in {DefaultTimeSlots, OverlappingTimeSlots, ReversedTimeSlots,
                        PartialTimeSlots} }

\* Minutes of the day the methods are called with: around the bounds of the
\* windows and around start + grace, and 23:30.
CallTimes ==
    { 510, 539, 540, 541, 554, 555, 556, 569, 570, 571, 720, 735, 736, 779, 780, 781,
      839, 840, 855, 856, 1080, 1081, 1320, 1321, 1410 }

\* Values of the lateThreshold argument.
Graces == {0, 15, 30}

InitTime ==
    /\ InitSystem
    /\ resolveCall = NoResolveCall
    /\ orderCall = NoOrderCall
    /\ webhookCall = NoWebhookCall
    /\ exifCall = NoExifCall
    /\ snapshotCall = NoSnapshotCall
    /\ verifyCall = NoVerifyCall
    /\ batchCall = NoBatchCall
    /\ timeCall \in [called : {FALSE}, center : TimeCenters, attendanceTime : CallTimes,
                     lateThreshold : Graces, slot : {NoSlot}, late : {FALSE}]

Classify ==
    /\ ~timeCall.called
    /\ timeCall' =
         [timeCall EXCEPT
            !.called = TRUE,
            !.slot = getCurrentTimeSlot(timeCall.center, timeCall.attendanceTime),
            !.late = isAttendanceLate(timeCall.center, timeCall.attendanceTime,
                                      timeCall.lateThreshold)]
    /\ UNCHANGED << sysVars, resolveCall, orderCall, webhookCall, exifCall, snapshotCall, verifyCall,
                    batchCall >>

NextTime == Classify

SpecTime == InitTime /\ [][NextTime]_vars

(***************************************************************************)
(* handleIncomingMessage run from its start to its end with no other       *)
(* request in between.  A run gives the collection after it and its        *)
(* outcome: "refused" (an early return or a reply without processing),     *)
(* "saved" (the save succeeded) or "failed" (the save threw).              *)
(***************************************************************************)
\* A text sent to the student: its kind, and the distance and the center it
\* names, if any.
PlainReply(kind) == [kind |-> kind, distance |-> None, center |-> Null]

\* Lines 298-312: the answer to a shared location that was saved.
LocationReply(res) ==
    IF res.isWithin
    THEN PlainReply("confirmation")
    ELSE [kind |-> "away", distance |-> Some(res.distance), center |-> res.center]

\* Lines 565-608: the answer to a photo that was saved, from one more resolution
\* of its GPS position.
ImageReply(m, student, settings) ==
    IF HasGPS(m)
    THEN LET res == findClosestValidCenter(m.gps[1], student, settings)
         IN  IF res.isWithin
             THEN [kind |-> "marked_present",
                   distance |-> IF m.type = "document" THEN Some(res.distance) ELSE None,
                   center |-> res.center]
             ELSE [kind |-> "away", distance |-> Some(res.distance), center |-> res.center]
    ELSE PlainReply("no_gps")

\* Lines 241-246: the catch of handleIncomingMessage.
SaveFailed(store) == [store |-> store, outcome |-> "failed", reply |-> PlainReply("error")]

\* processImageAttendance, lines 415-611.  reads are the settings that the calls
\* of findClosestValidCenter get, in the order of the calls: two calls when the
\* day has a record (lines 446, 574), three when it has none (488, 514, 574).
RunImageReads(store, m, k, student, reads, at) ==
    LET found == AttendanceFindOne(store, student.id, at.day)
    IN  IF found # 0
        THEN LET doc == PreSave(UpdatedDoc(store[found], m, student, reads[1], at), at)
             IN  [store |-> [store EXCEPT ![found] =
                                UpdateSaved(@, store[found], doc, ImageOf(k))],
                  outcome |-> "saved",
                  reply |-> ImageReply(m, student, reads[2])]
        ELSE LET doc == PreSave(CreatedFromReads(m, k, student, reads[1], reads[2]), at)
             IN  IF ValidAttendance(doc) /\ ~DuplicateKey(store, doc)
                 THEN [store |-> Append(store, doc), outcome |-> "saved",
                       reply |-> ImageReply(m, student, reads[3])]
                 ELSE SaveFailed(store)

\* The same when no settings change during the request.
RunImage(store, m, k, student, dir, at) ==
    RunImageReads(store, m, k, student, << dir, dir, dir >>, at)

\* processLocationAttendance, lines 250-322.
RunLocation(store, m, student, dir, at) ==
    LET res == findClosestValidCenter(m.gps[1], student, dir)
        doc == PreSave(LocationDoc(m, student, res, at), at)
    IN  IF ValidAttendance(doc) /\ ~DuplicateKey(store, doc)
        THEN [store |-> Append(store, doc), outcome |-> "saved", reply |-> LocationReply(res)]
        ELSE SaveFailed(store)

\* An early return or an answer without processing.
Answered(store, kind) == [store |-> store, outcome |-> "refused", reply |-> PlainReply(kind)]

\* handleIncomingMessage, lines 170-240, for message m with id k.
RunMessage(store, m, k, dir, at) ==
    LET student == StudentFindOne(m.from)
    IN  IF student = None
        THEN Answered(store, "not_registered")
        ELSE IF ~student[1].isActive
        THEN Answered(store, "inactive")
        ELSE IF AlreadyMarked(store, AttendanceFindOne(store, student[1].id, at.day))
        THEN Answered(store, "already_marked")
        ELSE IF m.type = "location"
        THEN RunLocation(store, m, student[1], dir, at)
        ELSE IF m.type \in {"image", "document"}
        THEN RunImage(store, m, k, student[1], dir, at)
        ELSE Answered(store, "text")

(***************************************************************************)
(* A shared location and a photo of one student, handled in both orders    *)
(***************************************************************************)
\* Positions the two messages can carry: at c1, on its radius, and outside.
OrderPoints == { [latitude |-> x, longitude |-> 0] : x \in {2, 4, 6} }

\* The shared location (message 1) and the photo (message 2) of student s1.
LocationMessages ==
    { [from |-> p1, timestamp |-> t, type |-> "location", gps |-> Some(pt)] :
        t \in Instants, pt \in OrderPoints }

PhotoMessages ==
    { [from |-> p1, timestamp |-> t, type |-> "image", gps |-> None] : t \in Instants }
        \cup { [from |-> p1, timestamp |-> t, type |-> "document", gps |-> Some(pt)] :
                 t \in Instants, pt \in OrderPoints }

\* The two messages are sent on one day and handled, one after the other, on
\* that day, neither before it was sent.
InitOrder ==
    /\ InitSystem
    /\ resolveCall = NoResolveCall
    /\ timeCall = NoTimeCall
    /\ webhookCall = NoWebhookCall
    /\ exifCall = NoExifCall
    /\ snapshotCall = NoSnapshotCall
    /\ verifyCall = NoVerifyCall
    /\ batchCall = NoBatchCall
    /\ orderCall \in { c \in [called : {FALSE}, location : LocationMessages,
                              photo : PhotoMessages, first : Instants, second : Instants,
                              locationFirst : {<< >>}, photoFirst : {<< >>}] :
                         /\ c.location.timestamp.day = c.photo.timestamp.day
                         /\ c.first.day = c.photo.timestamp.day
                         /\ c.second.day = c.photo.timestamp.day
                         /\ ~Before(c.first, c.location.timestamp)
                         /\ ~Before(c.first, c.photo.timestamp)
                         /\ ~Before(c.second, c.first) }

\* Both orders of delivery, each from the empty collection.
HandleBothOrders ==
    /\ ~orderCall.called
    /\ LET c == orderCall
           afterLocation == RunMessage(<< >>, c.location, 1, Some(centers), c.first).store
           afterPhoto == RunMessage(<< >>, c.photo, 2, Some(centers), c.first).store
       IN  orderCall' =
             [c EXCEPT
                !.called = TRUE,
                !.locationFirst = RunMessage(afterLocation, c.photo, 2, Some(centers), c.second).store,
                !.photoFirst = RunMessage(afterPhoto, c.location, 1, Some(centers),
                                        c.second).store]
    /\ UNCHANGED << sysVars, resolveCall, timeCall, webhookCall, exifCall, snapshotCall, verifyCall,
                    batchCall >>

NextOrder == HandleBothOrders

SpecOrder == InitOrder /\ [][NextOrder]_vars

(***************************************************************************)
(* handleWhatsAppWebhook serving one request with one message              *)
(***************************************************************************)
\* Every path of handleIncomingMessage ends with whatsappService.sendTextMessage.
\* sendUp: whether the WhatsApp API accepts messages while the message is
\* handled.  With the API up, the catch (lines 241-246) answers the sender with
\* an error text and returns, so no outcome of the handler reaches the webhook
\* as an exception; with the API down the send of the answer throws, the send of
\* the error text in the catch throws as well, and that leaves the handler.
HandlerThrows(outcome, sendUp) == ~sendUp

\* Lines 82-86: 200 { success: true }, or 500 from the catch.
WebhookStatus(outcome, sendUp) == IF HandlerThrows(outcome, sendUp) THEN 500 ELSE 200

\* geoService.validateCoordinates, which no handler calls.
validateCoordinates(lat, lng) == lat >= -90 /\ lat <= 90 /\ lng >= -180 /\ lng <= 180

\* A position that is no position on the earth.
OutOfRangePoints == { [latitude |-> 95, longitude |-> 0] }

\* The sender of the request: the number of s1, of the inactive s2, a number of
\* nobody, the number of s1 with the country code, and a number of one digit.
Senders == { p1, p2, p0, WithCountryCode(p1), << 1 >> }

\* The message of the request: any type from any sender.
WebhookMessages ==
    { m \in [from : Senders, timestamp : Instants,
             type : {"location", "image", "document", "text"},
             gps : {None} \cup { Some(pt) : pt \in OrderPoints \cup OutOfRangePoints }] :
        WellFormed(m) }

\* The pending record that a photo without GPS of s1 makes at instant 0.
PendingStore ==
    RunMessage(<< >>, [from |-> p1, timestamp |-> Instant(0), type |-> "image",
                       gps |-> None], 1, Some(InitCenters), Instant(0)).store

\* The collection before the request: empty, or holding the pending record, or
\* holding that record after an administrator set it to absent or to present.
WebhookStores ==
    { << >>, PendingStore }
        \cup { << ManualUpdate(PendingStore[1], status, Instant(0)) >> :
                 status \in {"absent", "present"} }

\* storeUp: whether the database accepts writes during the request; settingsUp:
\* whether Settings.getSettings() succeeds in findClosestValidCenter.  The
\* WhatsApp service sends with the settings it cached at an earlier request.
InitWebhook ==
    /\ InitSystem
    /\ resolveCall = NoResolveCall
    /\ timeCall = NoTimeCall
    /\ orderCall = NoOrderCall
    /\ exifCall = NoExifCall
    /\ snapshotCall = NoSnapshotCall
    /\ verifyCall = NoVerifyCall
    /\ batchCall = NoBatchCall
    /\ webhookCall \in { c \in [called : {FALSE}, before : WebhookStores,
                                message : WebhookMessages, at : Instants,
                                storeUp : BOOLEAN, settingsUp : BOOLEAN,
                                after : {<< >>}, outcome : {"refused"},
                                reply : {PlainReply("none")}, status : {0}] :
                           ~Before(c.at, c.message.timestamp) }

\* One request: the message (id 2) is handled, then the response is sent.  With
\* the database down the save throws and nothing is written.  The WhatsApp API
\* accepts every message.
ServeWebhook ==
    /\ ~webhookCall.called
    /\ LET c == webhookCall
           run == RunMessage(c.before, c.message, 2,
                             IF c.settingsUp THEN Some(centers) ELSE None, c.at)
           done == IF ~c.storeUp /\ run.outcome = "saved"
                   THEN SaveFailed(c.before)
                   ELSE run
       IN  webhookCall' = [c EXCEPT !.called = TRUE, !.after = done.store,
                                    !.outcome = done.outcome,
                                    !.reply = done.reply,
                                    !.status = WebhookStatus(done.outcome, TRUE)]
    /\ UNCHANGED << sysVars, resolveCall, timeCall, orderCall, exifCall, snapshotCall, verifyCall,
                    batchCall >>

NextWebhook == ServeWebhook

SpecWebhook == InitWebhook /\ [][NextWebhook]_vars

(***************************************************************************)
(* imageService.extractImageMetadata called on its own                     *)
(* A value read from the EXIF data is None (the field is missing) or       *)
(* Some(n).  A parse result is None (exifr threw or found nothing) or      *)
(* Some(record); GPSLatitude / GPSLongitude are taken as numbers.          *)
(***************************************************************************)
\* A value in a JavaScript condition: undefined, null and 0 are falsy.
Truthy(x) == x # None /\ x[1] # 0

\* if (ref === 'S' || ref === 'South') latitude = -latitude, and the same for
\* 'W' / 'West'.
Signed(x, ref, negative) == IF ref = negative THEN Some(0 - x[1]) ELSE x

NoGPS == [hasGPS |-> FALSE, location |-> None]

\* metadata.hasGPS and metadata.location for the coordinates of a method.
Located(latitude, longitude) ==
    [hasGPS |-> TRUE,
     location |-> Some([latitude |-> latitude[1], longitude |-> longitude[1]])]

\* Methods 4 and 5: the GPSLatitude / GPSLongitude fields with their references.
FromRefs(data) ==
    Located(Signed(data.GPSLatitude, data.GPSLatitudeRef, "S"),
            Signed(data.GPSLongitude, data.GPSLongitudeRef, "W"))

\* Lines 132-193: the first of the five methods whose two values are truthy.
extractImageMetadata(gpsData, allExifData, exifData) ==
    IF gpsData # None /\ Truthy(gpsData[1].latitude) /\ Truthy(gpsData[1].longitude)
    THEN Located(gpsData[1].latitude, gpsData[1].longitude)
    ELSE IF /\ allExifData # None
            /\ Truthy(allExifData[1].latitude) /\ Truthy(allExifData[1].longitude)
    THEN Located(allExifData[1].latitude, allExifData[1].longitude)
    ELSE IF /\ exifData # None
            /\ Truthy(exifData[1].latitude) /\ Truthy(exifData[1].longitude)
    THEN Located(exifData[1].latitude, exifData[1].longitude)
    ELSE IF /\ allExifData # None
            /\ Truthy(allExifData[1].GPSLatitude) /\ Truthy(allExifData[1].GPSLongitude)
    THEN FromRefs(allExifData[1])
    ELSE IF /\ exifData # None
            /\ Truthy(exifData[1].GPSLatitude) /\ Truthy(exifData[1].GPSLongitude)
    THEN FromRefs(exifData[1])
    ELSE NoGPS

\* The pairs of values a source can hold when its nonzero value is v: both
\* missing, one missing, one or both 0, both v.
ValuePairs(v) ==
    { << None, None >>, << None, Some(v) >>, << Some(0), Some(v) >>,
      << Some(v), Some(0) >>, << Some(v), Some(v) >> }

\* What exifr.gps gave; its nonzero value is 1.
GpsResults ==
    {None} \cup { Some([latitude |-> pr[1], longitude |-> pr[2]]) : pr \in ValuePairs(1) }

\* What exifr.parse gave; the nonzero value of its latitude / longitude is v and
\* that of its GPSLatitude / GPSLongitude is w, so that the methods disagree.
ParseResults(v, w) ==
    {None} \cup
    { Some([latitude |-> pr[1], longitude |-> pr[2],
            GPSLatitude |-> gp[1], GPSLongitude |-> gp[2],
            GPSLatitudeRef |-> ns, GPSLongitudeRef |-> ew]) :
        pr \in ValuePairs(v), gp \in ValuePairs(w), ns \in {"N", "S"}, ew \in {"E", "W"} }

InitExif ==
    /\ InitSystem
    /\ resolveCall = NoResolveCall
    /\ timeCall = NoTimeCall
    /\ orderCall = NoOrderCall
    /\ webhookCall = NoWebhookCall
    /\ snapshotCall = NoSnapshotCall
    /\ verifyCall = NoVerifyCall
    /\ batchCall = NoBatchCall
    /\ exifCall \in [called : {FALSE}, gpsData : GpsResults,
                     allExifData : ParseResults(2, 4), exifData : ParseResults(3, 5),
                     result : {NoGPS}]

Extract ==
    /\ ~exifCall.called
    /\ exifCall' =
         [exifCall EXCEPT
            !.called = TRUE,
            !.result = extractImageMetadata(exifCall.gpsData, exifCall.allExifData,
                                            exifCall.exifData)]
    /\ UNCHANGED << sysVars, resolveCall, timeCall, orderCall, webhookCall, snapshotCall,
                   verifyCall, batchCall >>

NextExif == Extract

SpecExif == InitExif /\ [][NextExif]_vars

(***************************************************************************)
(* processImageAttendance while an administrator changes the centers       *)
(***************************************************************************)
\* The centers at the start, with c1 removed, and with the radius of c1 doubled.
CenterVersions ==
    { InitCenters,
      << InitCenters[2] >>,
      << [InitCenters[1] EXCEPT !.radius = 4], InitCenters[2] >> }

\* A photo of s1 with a GPS position, sent and handled at one instant, on a day
\* with no record or a pending one; reads are the centers that the calls of
\* findClosestValidCenter find, in the order of the calls.
InitSnapshot ==
    /\ InitSystem
    /\ resolveCall = NoResolveCall
    /\ timeCall = NoTimeCall
    /\ orderCall = NoOrderCall
    /\ webhookCall = NoWebhookCall
    /\ exifCall = NoExifCall
    /\ verifyCall = NoVerifyCall
    /\ batchCall = NoBatchCall
    /\ snapshotCall \in [called : {FALSE},
                         before : {<< >>, PendingStore},
                         message : { [from |-> p1, timestamp |-> Instant(1),
                                      type |-> "document", gps |-> Some(pt)] :
                                       pt \in OrderPoints },
                         reads : [1..3 -> CenterVersions],
                         after : {<< >>}, reply : {PlainReply("none")}]

\* The photo (message 2) is handled.
HandleDuringChanges ==
    /\ ~snapshotCall.called
    /\ LET c == snapshotCall
           run == RunImageReads(c.before, c.message, 2, Students[1],
                                [i \in 1..3 |-> Some(c.reads[i])], c.message.timestamp)
       IN  snapshotCall' = [c EXCEPT !.called = TRUE, !.after = run.store,
                                     !.reply = run.reply]
    /\ UNCHANGED << sysVars, resolveCall, timeCall, orderCall, webhookCall, exifCall,
                   verifyCall, batchCall >>

NextSnapshot == HandleDuringChanges

SpecSnapshot == InitSnapshot /\ [][NextSnapshot]_vars

(***************************************************************************)
(* verifyAttendance called on its own                                      *)
(***************************************************************************)
\* The status of the request body: the three of the list, one of the schema's
\* that is not in the list, and one that is no status.
RequestStatuses == {"present", "late", "absent", "pending_verification", "excused"}

\* The collection is one of WebhookStores or holds two records of s1, of day 0
\* and of day 1; the id is that of a record or of none.
VerifyStores ==
    WebhookStores
        \cup { << PendingStore[1], [PendingStore[1] EXCEPT !.date = Instant(MaxTick)] >> }

InitVerify ==
    /\ InitSystem
    /\ resolveCall = NoResolveCall
    /\ timeCall = NoTimeCall
    /\ orderCall = NoOrderCall
    /\ webhookCall = NoWebhookCall
    /\ exifCall = NoExifCall
    /\ snapshotCall = NoSnapshotCall
    /\ batchCall = NoBatchCall
    /\ verifyCall \in [called : {FALSE}, before : VerifyStores, id : 1..3,
                       status : RequestStatuses, at : Instants,
                       after : {<< >>}, code : {0}]

ServeVerify ==
    /\ ~verifyCall.called
    /\ LET c == verifyCall
           done == VerifyRequest(c.before, c.id, c.status, c.at)
       IN  verifyCall' = [c EXCEPT !.called = TRUE, !.after = done.store,
                                   !.code = done.code]
    /\ UNCHANGED << sysVars, resolveCall, timeCall, orderCall, webhookCall, exifCall,
                    snapshotCall, batchCall >>

NextVerify == ServeVerify

SpecVerify == InitVerify /\ [][NextVerify]_vars

(***************************************************************************)
(* handleWhatsAppWebhook serving a request with two messages               *)
(***************************************************************************)
\* Lines 57-63: for (const message of change.value.messages)
\*                  await handleIncomingMessage(message, webhookData);
\* from message i of the batch on.  Message i has id i + 1.  The save of a
\* message is not undone when its answer cannot be sent; an exception ends the
\* loop and the request is answered 500.  reached is the number of messages whose
\* handling began.
RECURSIVE HandleMessages(_, _, _, _, _, _)
HandleMessages(store, batch, i, dir, at, sends) ==
    IF i > Len(batch)
    THEN [store |-> store, reached |-> Len(batch), status |-> 200]
    ELSE LET run == RunMessage(store, batch[i], i + 1, dir, at)
         IN  IF HandlerThrows(run.outcome, sends[i])
             THEN [store |-> run.store, reached |-> i,
                   status |-> WebhookStatus(run.outcome, sends[i])]
             ELSE HandleMessages(run.store, batch, i + 1, dir, at, sends)

\* The messages of a batch sent at instant t: a photo, a document with GPS or a
\* text, of student s1 or of a stranger.
BatchMessages(t) ==
    { m \in WebhookMessages :
        /\ m.from \in {p1, p0}
        /\ m.timestamp = t
        /\ m.type # "location"
        /\ m.gps \in {None} \cup { Some(pt) : pt \in OrderPoints } }

\* sends[i]: whether the WhatsApp API accepts messages while message i is
\* handled.
InitBatch ==
    /\ InitSystem
    /\ resolveCall = NoResolveCall
    /\ timeCall = NoTimeCall
    /\ orderCall = NoOrderCall
    /\ webhookCall = NoWebhookCall
    /\ exifCall = NoExifCall
    /\ snapshotCall = NoSnapshotCall
    /\ verifyCall = NoVerifyCall
    /\ \E t \in Instants :
          batchCall \in [phase : {"new"}, at : {t},
                         batch : BatchMessages(t) \X BatchMessages(t),
                         sends : [1..2 -> BOOLEAN],
                         after : {<< >>}, reached : {0}, status : {0},
                         redelivered : {<< >>}]

\* The request is served on an empty collection.
ServeBatch ==
    /\ batchCall.phase = "new"
    /\ LET c == batchCall
           done == HandleMessages(<< >>, c.batch, 1, Some(centers), c.at, c.sends)
       IN  batchCall' = [c EXCEPT !.phase = "served", !.after = done.store,
                                  !.reached = done.reached, !.status = done.status]
    /\ UNCHANGED << sysVars, resolveCall, timeCall, orderCall, webhookCall, exifCall,
                    snapshotCall, verifyCall >>

\* The provider delivers the request again after a 500; this time the WhatsApp
\* API accepts the answers.
RedeliverBatch ==
    /\ batchCall.phase = "served"
    /\ batchCall.status = 500
    /\ LET c == batchCall
           done == HandleMessages(c.after, c.batch, 1, Some(centers), c.at,
                                  [i \in 1..2 |-> TRUE])
       IN  batchCall' = [c EXCEPT !.phase = "redelivered", !.redelivered = done.store]
    /\ UNCHANGED << sysVars, resolveCall, timeCall, orderCall, webhookCall, exifCall,
                    snapshotCall, verifyCall >>

NextBatch == ServeBatch \/ RedeliverBatch

SpecBatch == InitBatch /\ [][NextBatch]_vars

(***************************************************************************)
(* Properties                                                              *)
(***************************************************************************)
\* The windows of a center argument (none for no center or no timeSlots).
WindowsOf(center) == IF NoTimeSlots(center) THEN << >> ELSE center[1].timeSlots[1]

\* Window w holds minute t of the day, both bounds included, in minutes.
Holds(w, t) ==
    /\ w.start # << >> /\ w.end # << >>
    /\ timeToMinutes(w.start) <= t
    /\ t <= timeToMinutes(w.end)

\* Indexes of the windows of the center that hold minute t.
Holding(center, t) ==
    { i \in 1..Len(WindowsOf(center)) : Holds(WindowsOf(center)[i], t) }

\* Indexes of the records of a student dated on a day.
RecordsOf(student, day) ==
    { i \in 1..Len(attendance) :
        attendance[i].student = student /\ attendance[i].date.day = day }

\* Entries of a record's images that came with message k.
EntriesFor(doc, k) == { j \in 1..Len(doc.images) : doc.images[j].msg = k }

\* The record was marked by automatic processing of evidence inside a radius.
AutoMarked(doc) ==
    /\ doc.verification.verificationMethod = "auto_geo"
    /\ doc.verification.isVerified
    /\ doc.location.isWithinRadius

\* C1: the store holds at most one attendance record per student and calendar
\* date.
C1_OneRecordPerStudentDay ==
    \A i, j \in 1..Len(attendance) :
        (/\ attendance[i].student = attendance[j].student
         /\ attendance[i].date.day = attendance[j].date.day) => i = j

\* C2: when two different photos of one student, sent at different instants of
\* the same day, have both been handled on that day (whatever the interleaving of
\* the two requests),
\* exactly one record exists for the student and the day and it holds an evidence
\* entry for each of the two messages.
C2_BothEvidenceInOneRecord ==
    (/\ \A p \in Procs : h[p].pc = "idle"
     /\ Len(msgs) = 2 /\ deliveries = 2 /\ adminOps = 0
     /\ msgs[1].from = msgs[2].from
     /\ msgs[1].type = "image" /\ msgs[2].type = "image"
     /\ msgs[1].timestamp # msgs[2].timestamp
     /\ msgs[1].timestamp.day = now.day /\ msgs[2].timestamp.day = now.day)
    => LET recs == RecordsOf(StudentFindOne(msgs[1].from)[1].id, now.day)
       IN  /\ Cardinality(recs) = 1
           /\ \A i \in recs : EntriesFor(attendance[i], 1) # {} /\ EntriesFor(attendance[i], 2) # {}

\* C3: a record's evidence list holds at most one entry per message id, also when
\* the message is delivered again.
C3_OneEntryPerMessage ==
    \A i \in 1..Len(attendance) : \A k \in 1..Len(msgs) :
        Cardinality(EntriesFor(attendance[i], k)) <= 1

\* C4: once a record carries verification method manual_admin, no step other than
\* a manual verification changes its status or its verification fields.
C4_ManualStatusKept ==
    [][adminOps' = adminOps =>
         \A i \in 1..Len(attendance) :
            attendance[i].verification.verificationMethod = "manual_admin"
            => /\ attendance'[i].status = attendance[i].status
               /\ attendance'[i].verification = attendance[i].verification]_vars

\* C5: for a student with an assigned center the resolution names no other
\* center, and when the assigned center is inactive or missing from the directory
\* the result is not matched, with no center.
C5_AssignedCenterOnly ==
    (resolveCall.called /\ resolveCall.self.assignedCenter # Null)
    => LET dir == resolveCall.centers
           mine == { i \in 1..Len(dir) : dir[i].id = resolveCall.self.assignedCenter }
       IN  /\ resolveCall.result.center \in {Null, resolveCall.self.assignedCenter}
           /\ (\A i \in mine : ~dir[i].isActive)
                => ~resolveCall.result.isWithin /\ resolveCall.result.center = Null

\* C6: for a student with no assigned center the resolution reports a match
\* exactly when some active center is at a distance of at most its radius.
C6_MatchedIffWithinSomeRadius ==
    (resolveCall.called /\ resolveCall.self.assignedCenter = Null)
    => LET dir == resolveCall.centers
       IN  resolveCall.result.isWithin
             <=> \E i \in 1..Len(dir) :
                    /\ dir[i].isActive
                    /\ getDistance(resolveCall.point, dir[i].coordinates) <= dir[i].radius

\* C6, witness: an unassigned student at a point exactly on the radius of the only
\* active center that holds it, reported as a match.
C6_Witness ==
    /\ resolveCall.called
    /\ resolveCall.self.assignedCenter = Null
    /\ resolveCall.result.isWithin
    /\ \E i \in 1..Len(resolveCall.centers) :
         /\ resolveCall.centers[i].isActive
         /\ getDistance(resolveCall.point, resolveCall.centers[i].coordinates)
              = resolveCall.centers[i].radius
         /\ \A j \in 1..Len(resolveCall.centers) :
              (j # i /\ resolveCall.centers[j].isActive)
              => getDistance(resolveCall.point, resolveCall.centers[j].coordinates)
                   > resolveCall.centers[j].radius

\* C7: a record marked by evidence inside a radius, dated inside a window of the
\* center and at most the grace minutes after the window's start, has status
\* present (with morning 09:00-13:00 and grace 15, a check-in at 09:05).
C7_WithinGracePresent ==
    \A i \in 1..Len(attendance) :
        (/\ AutoMarked(attendance[i])
         /\ \E c \in 1..Len(centers) : \E w \in Holding(Some(centers[c]), attendance[i].date.min) :
              attendance[i].date.min - timeToMinutes(WindowsOf(Some(centers[c]))[w].start)
                <= lateThreshold)
        => attendance[i].status = "present"

\* C8: when exactly one window holds the instant, isAttendanceLate is true exactly
\* when the minute of the day minus the minute of the window's start is greater
\* than the grace threshold.
C8_LateIffBeyondGrace ==
    (timeCall.called /\ Cardinality(Holding(timeCall.center, timeCall.attendanceTime)) = 1)
    => \A w \in Holding(timeCall.center, timeCall.attendanceTime) :
          timeCall.late
            <=> timeCall.attendanceTime - timeToMinutes(WindowsOf(timeCall.center)[w].start)
                  > timeCall.lateThreshold

\* C8, witness: a call exactly at start + grace, with a grace above 0, answered
\* not late.
C8_Witness ==
    /\ timeCall.called
    /\ timeCall.lateThreshold > 0
    /\ ~timeCall.late
    /\ \E w \in Holding(timeCall.center, timeCall.attendanceTime) :
         timeCall.attendanceTime
           = timeToMinutes(WindowsOf(timeCall.center)[w].start) + timeCall.lateThreshold

\* C9: getCurrentTimeSlot reports isWithinHours exactly when some window holds the
\* instant, both bounds included, and then returns the name and the bounds of a
\* window that holds it.
C9_InclusiveBounds ==
    timeCall.called
    => LET hits == Holding(timeCall.center, timeCall.attendanceTime)
           ws == WindowsOf(timeCall.center)
       IN  /\ timeCall.slot.isWithinHours <=> hits # {}
           /\ hits # {} => \E w \in hits :
                             /\ timeCall.slot.slot = ws[w].name
                             /\ timeCall.slot.startTime = ws[w].start
                             /\ timeCall.slot.endTime = ws[w].end

\* C9, witness: a call at the very end of a window, answered with that window.
C9_Witness ==
    /\ timeCall.called
    /\ timeCall.slot.isWithinHours
    /\ timeToMinutes(timeCall.slot.endTime) = timeCall.attendanceTime

\* C10: a record dated at an instant that no window of any center holds is never
\* marked present by automatic processing.
C10_OutsideWindowsNeverPresent ==
    \A i \in 1..Len(attendance) :
        (/\ AutoMarked(attendance[i])
         /\ \A c \in 1..Len(centers) : Holding(Some(centers[c]), attendance[i].date.min) = {})
        => attendance[i].status # "present"

\* A collection without the times at which its records were verified.
WithoutVerifiedAt(store) ==
    [i \in 1..Len(store) |-> [store[i] EXCEPT !.verification.verifiedAt = None]]

C12_FailedSaveNotAcknowledged ==
    (webhookCall.called /\ webhookCall.outcome = "failed")
    => webhookCall.after # webhookCall.before \/ webhookCall.status # 200

\* C13: a record that automatic processing has moved to present or late holds a
\* photo and a location inside a radius; a record without a photo (a shared
\* location alone) is never present or late by automatic processing.
C13_PresentNeedsPhotoAndFix ==
    \A i \in 1..Len(attendance) :
        (/\ attendance[i].status \in {"present", "late"}
         /\ attendance[i].verification.verificationMethod = "auto_geo")
        => /\ attendance[i].images # << >>
           /\ attendance[i].location.isWithinRadius

\* C13, witness: a record marked present by automatic processing, with its photo
\* and its location inside the radius.
C13_Witness ==
    \E i \in 1..Len(attendance) :
        /\ attendance[i].status = "present"
        /\ AutoMarked(attendance[i])
        /\ attendance[i].images # << >>

\* C15: a photo of a student whose record of the day carries method manual_admin
\* is appended to the record's evidence list, and the record's status and
\* verification fields stay as they were.
C15_EvidenceKeptAfterManual ==
    (/\ webhookCall.called
     /\ webhookCall.storeUp
     /\ webhookCall.message.from = p1
     /\ webhookCall.message.type \in {"image", "document"}
     /\ webhookCall.before # << >>
     /\ webhookCall.before[1].verification.verificationMethod = "manual_admin"
     /\ webhookCall.before[1].date.day = webhookCall.message.timestamp.day
     /\ webhookCall.before[1].date.day = webhookCall.at.day)
    => /\ Len(webhookCall.after) = 1
       /\ webhookCall.after[1].status = webhookCall.before[1].status
       /\ webhookCall.after[1].verification = webhookCall.before[1].verification
       /\ EntriesFor(webhookCall.after[1], 2) # {}

\* The message carries a position inside the radius of some active center.
GeofenceHit(m, dir) ==
    /\ m.gps # None
    /\ \E c \in 1..Len(dir) :
         dir[c].isActive /\ getDistance(m.gps[1], dir[c].coordinates) <= dir[c].radius

\* C16: the first evidence of the unassigned student s1 for a day (a shared
\* location or a photo, the collection empty) leaves one stored record, with
\* status present or late when the evidence is a geofence hit and
\* pending_verification when it is not.
C16_FirstEvidenceStatus ==
    (/\ webhookCall.called
     /\ webhookCall.storeUp
     /\ webhookCall.before = << >>
     /\ webhookCall.message.from = p1
     /\ webhookCall.message.type \in {"location", "image", "document"})
    => /\ Len(webhookCall.after) = 1
       /\ IF GeofenceHit(webhookCall.message, centers)
          THEN webhookCall.after[1].status \in {"present", "late"}
          ELSE webhookCall.after[1].status = "pending_verification"

\* The distance from a point to the nearest active center of a directory that
\* has one.
NearestDistance(pt, dir) ==
    LET ds == { getDistance(pt, dir[c].coordinates) : c \in { c \in 1..Len(dir) : dir[c].isActive } }
    IN  CHOOSE d \in ds : \A e \in ds : d <= e

\* C17: a photo of s1 with a position outside every radius, arriving when the day
\* has no record or a pending one, leaves the record pending_verification and not
\* verified, with the distance to the nearest center stored on it.
C17_MissKeepsPendingWithNearest ==
    (/\ webhookCall.called
     /\ webhookCall.storeUp
     /\ webhookCall.message.from = p1
     /\ webhookCall.message.type = "document"
     /\ ~GeofenceHit(webhookCall.message, centers)
     /\ webhookCall.before \in {<< >>, PendingStore}
     /\ webhookCall.at.day = 0)
    => /\ Len(webhookCall.after) = 1
       /\ webhookCall.after[1].status = "pending_verification"
       /\ ~webhookCall.after[1].verification.isVerified
       /\ webhookCall.after[1].location.distanceFromCenter
            = NearestDistance(webhookCall.message.gps[1], centers)

\* Indexes of the active centers of a directory whose radius holds the point.
Hits(pt, dir) ==
    { c \in 1..Len(dir) :
        dir[c].isActive /\ getDistance(pt, dir[c].coordinates) <= dir[c].radius }

ActiveCenters(dir) == { c \in 1..Len(dir) : dir[c].isActive }

\* C19: for an unassigned student at a point that no active center holds, in a
\* directory with an active center, the resolution reports isWithin false with the
\* nearest active center and its finite distance.
C19_MissReportsClosestCandidate ==
    (/\ resolveCall.called
     /\ resolveCall.self.assignedCenter = Null
     /\ ActiveCenters(resolveCall.centers) # {}
     /\ Hits(resolveCall.point, resolveCall.centers) = {})
    => /\ ~resolveCall.result.isWithin
       /\ resolveCall.result.distance = NearestDistance(resolveCall.point, resolveCall.centers)
       /\ \E c \in ActiveCenters(resolveCall.centers) :
             /\ resolveCall.result.center = resolveCall.centers[c].id
             /\ getDistance(resolveCall.point, resolveCall.centers[c].coordinates)
                  = resolveCall.result.distance

\* C20: the resolution returns no inactive center, and with no active center in
\* the directory it returns isWithin false, distance Infinity and no center.
C20_ActiveCentersOnly ==
    resolveCall.called
    => /\ ActiveCenters(resolveCall.centers) = {} => resolveCall.result = NotWithin
       /\ resolveCall.result.center # Null
            => \E c \in ActiveCenters(resolveCall.centers) :
                  resolveCall.result.center = resolveCall.centers[c].id

\* C20, witness: the point is inside the radius of an inactive center, which is
\* not returned.
C20_Witness ==
    /\ resolveCall.called
    /\ \E c \in 1..Len(resolveCall.centers) :
          /\ ~resolveCall.centers[c].isActive
          /\ getDistance(resolveCall.point, resolveCall.centers[c].coordinates)
               <= resolveCall.centers[c].radius
          /\ resolveCall.result.center # resolveCall.centers[c].id

\* C21: when two or more windows of the center hold the instant,
\* getCurrentTimeSlot returns the one declared first, and isAttendanceLate
\* measures the grace from the start of that window.
C21_FirstDeclaredWindowWins ==
    (timeCall.called /\ Cardinality(Holding(timeCall.center, timeCall.attendanceTime)) >= 2)
    => LET hits == Holding(timeCall.center, timeCall.attendanceTime)
           ws == WindowsOf(timeCall.center)
           w == CHOOSE i \in hits : \A j \in hits : i <= j
       IN  /\ timeCall.slot.isWithinHours
           /\ timeCall.slot.slot = ws[w].name
           /\ timeCall.slot.startTime = ws[w].start
           /\ timeCall.slot.endTime = ws[w].end
           /\ timeCall.late
                <=> timeCall.attendanceTime - timeToMinutes(ws[w].start)
                      > timeCall.lateThreshold

\* C21, witness: the instant is in two windows, the first declared one is
\* returned and the call is late although it is within the grace of the other.
C21_Witness ==
    /\ timeCall.called
    /\ Holding(timeCall.center, timeCall.attendanceTime) = {1, 2}
    /\ timeCall.slot.slot = WindowsOf(timeCall.center)[1].name
    /\ timeCall.late
    /\ timeCall.attendanceTime - timeToMinutes(WindowsOf(timeCall.center)[2].start)
         <= timeCall.lateThreshold

\* C22: a photo of s1 stamped on day 0 and handled on day 1, when day 0 has a
\* pending record, is attached to that record, and no other record is made or
\* changed.
C22_LateEvidenceOnItsOwnDay ==
    (/\ webhookCall.called
     /\ webhookCall.storeUp
     /\ webhookCall.message.from = p1
     /\ webhookCall.message.type \in {"image", "document"}
     /\ webhookCall.before = PendingStore
     /\ webhookCall.message.timestamp.day = 0
     /\ webhookCall.at.day = 1)
    => /\ Len(webhookCall.after) = 1
       /\ webhookCall.after[1].date.day = 0
       /\ EntriesFor(webhookCall.after[1], 2) # {}

\* C23: a shared location of s1 that the handler accepts (the day has no record
\* or a pending one) is kept on the day's record, as an entry of its list or as
\* its location, and the entries the record had are still there.
C23_AcceptedLocationKept ==
    (/\ webhookCall.called
     /\ webhookCall.storeUp
     /\ webhookCall.message.from = p1
     /\ webhookCall.message.type = "location"
     /\ webhookCall.before \in {<< >>, PendingStore}
     /\ webhookCall.message.timestamp.day = 0
     /\ webhookCall.at.day = 0)
    => \E i \in 1..Len(webhookCall.after) :
          /\ \/ EntriesFor(webhookCall.after[i], 2) # {}
             \/ webhookCall.after[i].location.coordinates = webhookCall.message.gps[1]
          /\ \A j \in 1..Len(webhookCall.before) :
                i = j => SubSeq(webhookCall.after[i].images, 1,
                                Len(webhookCall.before[j].images))
                           = webhookCall.before[j].images

\* C24: when the settings cannot be read while a photo with a GPS position of s1
\* is handled, the photo is still attached to the day's record, the record is
\* pending_verification, and the answer to the student names no distance and
\* does not say that the student is away from a center.
C24_UnreadableDirectoryDefers ==
    (/\ webhookCall.called
     /\ webhookCall.storeUp
     /\ ~webhookCall.settingsUp
     /\ webhookCall.message.from = p1
     /\ webhookCall.message.type = "document"
     /\ webhookCall.before \in {<< >>, PendingStore}
     /\ webhookCall.message.timestamp.day = 0
     /\ webhookCall.at.day = 0)
    => /\ \E i \in 1..Len(webhookCall.after) :
             /\ EntriesFor(webhookCall.after[i], 2) # {}
             /\ webhookCall.after[i].status = "pending_verification"
       /\ webhookCall.reply.kind # "away"
       /\ webhookCall.reply.distance = None

\* The positions that a message carries: none or one.
CarriedBy(m) == IF HasGPS(m) THEN {m.gps[1]} ELSE {}

\* C25: a photo of s1 without a GPS position, arriving when the day has no
\* record, is attached to a record whose stored coordinates are coordinates that
\* the photo carried, so none.
C25_NoFabricatedCoordinates ==
    (/\ webhookCall.called
     /\ webhookCall.storeUp
     /\ webhookCall.message.from = p1
     /\ webhookCall.message.type = "image"
     /\ webhookCall.before = << >>
     /\ webhookCall.message.timestamp.day = webhookCall.at.day)
    => /\ \E i \in 1..Len(webhookCall.after) : EntriesFor(webhookCall.after[i], 2) # {}
       /\ \A i \in 1..Len(webhookCall.after) :
             webhookCall.after[i].location.coordinates \in CarriedBy(webhookCall.message)

\* A method yields when both of its values are there, the value 0 included.
Yields(latitude, longitude) == latitude # None /\ longitude # None

\* The coordinates of the methods in their order, each none or one:
\* gpsData, allExifData, exifData, then the GPSLatitude / GPSLongitude fields of
\* allExifData and of exifData with their references applied.
MethodsOf(call) ==
    LET direct(d) == IF d # None /\ Yields(d[1].latitude, d[1].longitude)
                     THEN Located(d[1].latitude, d[1].longitude) ELSE NoGPS
        refs(d) == IF d # None /\ Yields(d[1].GPSLatitude, d[1].GPSLongitude)
                   THEN FromRefs(d[1]) ELSE NoGPS
    IN  << direct(call.gpsData), direct(call.allExifData), direct(call.exifData),
           refs(call.allExifData), refs(call.exifData) >>

\* C26: extractImageMetadata returns the coordinates of the first method, in the
\* order of the code, that has both a latitude and a longitude, a value of 0
\* counting as a value; with no such method it reports no GPS.
C26_FirstYieldingMethodWins ==
    exifCall.called
    => LET methods == MethodsOf(exifCall)
           yielding == { i \in 1..Len(methods) : methods[i].hasGPS }
       IN  IF yielding = {}
           THEN exifCall.result = NoGPS
           ELSE exifCall.result = methods[CHOOSE i \in yielding : \A j \in yielding : i <= j]

\* C27: a photo of s1 whose GPS position is out of range changes no record and
\* is answered with a could-not-read-the-location text.
C27_OutOfRangeRejected ==
    (/\ webhookCall.called
     /\ webhookCall.storeUp
     /\ webhookCall.settingsUp
     /\ webhookCall.message.from = p1
     /\ webhookCall.message.type = "document"
     /\ ~validateCoordinates(webhookCall.message.gps[1].latitude,
                             webhookCall.message.gps[1].longitude)
     /\ webhookCall.before \in {<< >>, PendingStore})
    => /\ webhookCall.after = webhookCall.before
       /\ webhookCall.reply.kind = "unreadable_location"

\* A center with a radius that is not negative and coordinates that are numbers.
ValidCenter(center) ==
    /\ center.radius >= 0
    /\ center.coordinates.latitude # NaN
    /\ center.coordinates.longitude # NaN

C29_DuplicateKeyMerged ==
    [][\A p \in Procs :
         (/\ h[p].pc = "img_save"
          /\ h'[p].pc = "idle"
          /\ h[p].found = 0
          /\ DuplicateKey(attendance, PreSave(h[p].doc, now)))
         => \E i \in 1..Len(attendance') : EntriesFor(attendance'[i], h[p].msg) # {}]_vars

\* C30: the record and the answer that one photo leaves are those that the
\* centers of one of its reads give when used for the whole request.
C30_OneSnapshotPerOperation ==
    snapshotCall.called
    => \E i \in 1..3 :
          LET run == RunImage(snapshotCall.before, snapshotCall.message, 2, Students[1],
                              Some(snapshotCall.reads[i]), snapshotCall.message.timestamp)
          IN  /\ snapshotCall.after = run.store
              /\ snapshotCall.reply = run.reply

C32_StatusAgreesWithVerification ==
    snapshotCall.called
    => \A i \in 1..Len(snapshotCall.after) :
          LET doc == snapshotCall.after[i]
          IN  /\ doc.verification.isVerified => doc.status # "pending_verification"
              /\ doc.status \in {"present", "late"} => AutoMarked(doc)

\* C33: a step of message handling leaves every record whose status is present,
\* late or absent as it is (status, location, verification and evidence list),
\* gives no record the status absent and moves no record back to
\* pending_verification.
C33_DecidedRecordFrozen ==
    [][adminOps' = adminOps
       => /\ Len(attendance') >= Len(attendance)
          /\ \A i \in 1..Len(attendance) :
                /\ attendance[i].status # "pending_verification"
                   => attendance'[i] = attendance[i]
                /\ attendance'[i].status = "absent" => attendance[i].status = "absent"
          /\ \A i \in (Len(attendance) + 1)..Len(attendance') :
                attendance'[i].status # "absent"]_vars

\* The students registered with exactly the number.
RegisteredWith(from) == { Students[i] : i \in { j \in 1..Len(Students) : Students[j].phone = from } }

\* C34: a handled message changes the collection only for the student whose
\* registered phone is the sender's number: a message from a number no student
\* is registered with, from an inactive student, or a text message leaves every
\* record as it was, and every record created or changed belongs to a student
\* registered with the sender's number.
C34_OnlySendersOwnRecord ==
    webhookCall.called
    => LET c == webhookCall
           owners == { st \in RegisteredWith(c.message.from) : st.isActive }
       IN  /\ (owners = {} \/ c.message.type = "text") => c.after = c.before
           /\ \A i \in 1..Len(c.after) :
                (i > Len(c.before) \/ c.after[i] # c.before[i])
                => \E st \in owners : c.after[i].student = st.id

\* C35: the reply agrees with the stored record: when the reply to a message of
\* student s1, handled at the time it was sent, says that attendance has been
\* marked as present, the record of the student for the day of the request has
\* status present, and when that record is late or pending the reply does not
\* say present.
C35_ReplyAgreesWithRecord ==
    /\ webhookCall.called
    /\ webhookCall.outcome = "saved"
    /\ webhookCall.message.from = p1
    /\ webhookCall.at = webhookCall.message.timestamp
    => LET c == webhookCall
           student == StudentFindOne(c.message.from)[1]
           found == AttendanceFindOne(c.after, student.id, c.at.day)
       IN  /\ c.reply.kind \in {"marked_present", "confirmation"}
              => found # 0 /\ c.after[found].status = "present"
           /\ (found # 0 /\ c.after[found].status \in {"late", "pending_verification"})
              => c.reply.kind # "marked_present"

\* C36: when a webhook request carries several messages and a record was saved,
\* a failure while one message is handled, such as the answer that cannot be sent
\* after the save, does not keep the remaining messages from being handled, and
\* the redelivery of the request neither removes a saved record nor records a
\* message twice.
C36_BatchFailureIsolated ==
    /\ batchCall.phase \in {"served", "redelivered"} /\ batchCall.after # << >>
       => batchCall.reached = Len(batchCall.batch)
    /\ batchCall.phase = "redelivered"
       => /\ Len(batchCall.redelivered) >= Len(batchCall.after)
          /\ \A i \in 1..Len(batchCall.redelivered) :
                \A k \in 2..3 : Cardinality(EntriesFor(batchCall.redelivered[i], k)) <= 1

====
